---- MODULE Spec2Model ----
(***************************************************************************)
(* Model of the AVR_ILI9341 display driver: the SPI command/data framing   *)
(* (TFT_SPI), the panel operations (AVR_ILI9341) and the shape engine      *)
(* (TFT_GFX).  Every public entry point is one action; the bytes and pin   *)
(* writes it performs are recorded, in order, in the variable bus, and the *)
(* setScreenData calls it makes in the variable runs.  Arithmetic keeps    *)
(* the widths of the AVR target: int and uint16_t are 16 bits wide.        *)
(***************************************************************************)
EXTENDS Integers, Sequences, FiniteSets, TLC

VARIABLES rotation, _width, _height, cs, dc, call, bus, runs, prev

vars == << rotation, _width, _height, cs, dc, call, bus, runs, prev >>

(***************************** bounds **************************************)
\* Largest corner radius requested of drawShape.
MaxRadius == 10
\* Largest stroke width requested of drawShape.
MaxStroke == 2
\* Largest register index requested of readcommand.
MaxIndex == 2
\* Longest colour run that is expanded byte by byte.
MaxPixels == 24

(************************ program constants ********************************)
TFT_WIDTH == 240
TFT_HEIGHT == 320

MADCTL_MY == 128
MADCTL_MX == 64
MADCTL_MV == 32
MADCTL_BGR == 8

ILI9341_NOP == 0
ILI9341_SLPOUT == 17
ILI9341_GAMMASET == 38
ILI9341_DISPON == 41
ILI9341_CASET == 42
ILI9341_PASET == 43
ILI9341_RAMWR == 44
ILI9341_VSCRDEF == 51
ILI9341_MADCTL == 54
ILI9341_VSCRSADD == 55
ILI9341_PIXFMT == 58
ILI9341_FRMCTR1 == 177
ILI9341_DFUNCTR == 182
ILI9341_PWCTR1 == 192
ILI9341_PWCTR2 == 193
ILI9341_VMCTR1 == 197
ILI9341_VMCTR2 == 199
ILI9341_PWCTRA == 203
ILI9341_CMD_CF == 207
ILI9341_GMCTRP1 == 224
ILI9341_GMCTRN1 == 225
ILI9341_TIMCTRA == 232
ILI9341_TIMCTRC == 234
ILI9341_POWSEQ == 237
ILI9341_EN3GAM == 242
ILI9341_INTFCTR == 246
ILI9341_PUMPRAT == 247

LOW == 0
HIGH == 1

(************************ fixed-width arithmetic ***************************)
\* uint16_t / unsigned int of the target: values wrap modulo 2^16.
U16(n) == ((n % 65536) + 65536) % 65536

\* uint8_t: values wrap modulo 2^8.
U8(n) == ((n % 256) + 256) % 256

RECURSIVE SqrtBits(_, _, _)
SqrtBits(n, bit, res) ==
  IF bit = 0 THEN res
  ELSE IF (res + bit) * (res + bit) <= n
       THEN SqrtBits(n, bit \div 2, res + bit)
       ELSE SqrtBits(n, bit \div 2, res)

\* round(sqrt(n)) for 0 <= n < 2^16: the floor root s, rounded up when
\* n lies above s^2 + s (that is, above (s + 1/2)^2).
RoundSqrt(n) ==
  LET s == SqrtBits(n, 128, 0)
  IN  IF n - s * s > s THEN s + 1 ELSE s

(***************************** bus events **********************************)
\* One record per pin write or transfer, in program order:
\*   START  beginTransaction and chip-select low      END  the reverse
\*   DC     digitalWrite(_dc, v)
\*   X      one byte v transferred                    (n = 1)
\*   RUN    the 16-bit value v transferred n times, high byte first
\*   DELAY  delay(CMD_DELAY), the fixed settle delay
Ev(k, v, n) == [k |-> k, v |-> v, n |-> n]

SPI_START == << Ev("START", 0, 0) >>

SPI_END == << Ev("END", 0, 0) >>

writeSPI(c) == << Ev("X", U8(c), 1) >>

\* Variant: the selector line is written only when the call found it high.
writeCommand_LazyDc(cmd) ==
  (IF dc = LOW THEN << >> ELSE << Ev("DC", LOW, 0) >>) \o writeSPI(cmd)

writeCommand(cmd) == << Ev("DC", LOW, 0) >> \o writeSPI(cmd)

writeData(d8) == << Ev("DC", HIGH, 0) >> \o writeSPI(d8)

writeData16(color, num) ==
  << Ev("DC", HIGH, 0) >> \o
  (IF num > 0 THEN << Ev("RUN", color, num) >> ELSE << >>)

\* Variant: the low byte of each value goes out first.
RECURSIVE RunBytes_LowFirst(_, _)
RunBytes_LowFirst(color, num) ==
  IF num > 0
  THEN writeSPI(color) \o writeSPI(color \div 256)
       \o RunBytes_LowFirst(color, num - 1)
  ELSE << >>

\* The while loop of writeData16, transfer by transfer: what a RUN event
\* stands for.
RECURSIVE RunBytes(_, _)
RunBytes(color, num) ==
  IF num > 0
  THEN writeSPI(color \div 256) \o writeSPI(color) \o RunBytes(color, num - 1)
  ELSE << >>

\* Selector-line level after the events tr, starting from level.
RECURSIVE LevelAfter(_, _, _)
LevelAfter(tr, i, level) ==
  IF i = 0 THEN level
  ELSE IF tr[i].k = "DC" THEN tr[i].v
  ELSE LevelAfter(tr, i - 1, level)

\* The bytes of the events tr with the selector-line level each one is
\* transferred at; level is the level before the first event.  The trace
\* is split in halves, so that long traces do not nest deeply.
RECURSIVE Wire(_, _)
Wire(tr, level) ==
  IF tr = << >> THEN << >>
  ELSE IF Len(tr) = 1
  THEN LET e == tr[1]
           bytes == IF e.k = "X" THEN << e >>
                    ELSE IF e.k = "RUN" THEN RunBytes(e.v, e.n)
                    ELSE << >>
       IN  [i \in DOMAIN bytes |-> [b |-> bytes[i].v, dc |-> level]]
  ELSE LET half == Len(tr) \div 2
           left == SubSeq(tr, 1, half)
       IN  Wire(left, level)
           \o Wire(SubSeq(tr, half + 1, Len(tr)), LevelAfter(left, half, level))

RECURSIVE SendBytes(_)
SendBytes(bytes) ==
  IF bytes = << >> THEN << >>
  ELSE writeData(Head(bytes)) \o SendBytes(Tail(bytes))

\* The bytes are the ones pgm_read_byte returned for dataBytes[0..numBytes-1].
sendCommand(cmd, bytes) == writeCommand(cmd) \o SendBytes(bytes)

(************************* AVR_ILI9341 / TFT_GFX ***************************)
\* Variant: only the start column and the start page are programmed.
setAddressWindow_StartOnly(x1, y1, x2, y2) ==
  SPI_START \o
  writeCommand(ILI9341_CASET) \o writeData16(x1, 1) \o
  writeCommand(ILI9341_PASET) \o writeData16(y1, 1) \o
  writeCommand(ILI9341_RAMWR)

\* Variant: the pages are programmed before the columns.
setAddressWindow_RowsFirst(x1, y1, x2, y2) ==
  SPI_START \o
  writeCommand(ILI9341_PASET) \o writeData16(y1, 1) \o writeData16(y2, 1) \o
  writeCommand(ILI9341_CASET) \o writeData16(x1, 1) \o writeData16(x2, 1) \o
  writeCommand(ILI9341_RAMWR)

\* Opens the transaction, programs columns x1..x2 and pages y1..y2, and
\* sends the memory-write opcode.  It does not close the transaction.
setAddressWindow(x1, y1, x2, y2) ==
  SPI_START \o
  writeCommand(ILI9341_CASET) \o writeData16(x1, 1) \o writeData16(x2, 1) \o
  writeCommand(ILI9341_PASET) \o writeData16(y1, 1) \o writeData16(y2, 1) \o
  writeCommand(ILI9341_RAMWR)

\* Variant: the colour run alone, written to whatever window is programmed.
ScreenDataBus_NoWindow(run) == writeData16(run.color, run.num)

\* One setScreenData call: the window it programs and the pixel count it
\* hands to writeData16.  _depth is a uint8_t parameter; the sums and the
\* product are unsigned 16-bit.
setScreenData(xPos, yPos, _xFillPx, _depth, _fillcolor) ==
  LET depth == U8(_depth)
  IN  [x0 |-> xPos, y0 |-> yPos,
       x1 |-> U16(_xFillPx + xPos), y2 |-> U16(depth + yPos),
       color |-> _fillcolor,
       num |-> U16(U16(_xFillPx + 1) * depth)]

\* The pin writes and transfers of one setScreenData call.
ScreenDataBus(run) ==
  setAddressWindow(run.x0, run.y0, run.x1, run.y2) \o
  writeData16(run.color, run.num)

RECURSIVE RunsBus(_)
RunsBus(rs) ==
  IF rs = << >> THEN << >>
  ELSE ScreenDataBus(Head(rs)) \o RunsBus(Tail(rs))

\* Variant: a chord that stays two above the radius, for the radii whose
\* square fits 16 bits.
circleAlgo_Wide(y, radius) == IF radius < 256 THEN radius + 2 ELSE 0

\* Variant: the root truncated instead of rounded.
circleAlgo_Floor(y, radius) ==
  SqrtBits(U16(U16(radius * radius) - U16(y * y)), 128, 0)

circleAlgo(y, radius) ==
  RoundSqrt(U16(U16(radius * radius) - U16(y * y)))

\* Variant: the bottom hemisphere plots both of its octets with the narrow
\* chord.
plotOctets_NarrowBottom(hemisphere, xCenter, yCenter, xOutline, yOutline, length, color) ==
  IF hemisphere = "Top"
  THEN << setScreenData(U16(xCenter - yOutline), U16(yCenter - xOutline),
                        U16(2 * yOutline + length), 1, color),
          setScreenData(U16(xCenter - xOutline), U16(yCenter - yOutline),
                        U16(2 * xOutline + length), 1, color) >>
  ELSE << setScreenData(U16(xCenter - xOutline), U16(yCenter + yOutline),
                        U16(2 * xOutline + length), 1, color),
          setScreenData(U16(xCenter - xOutline), U16(yCenter + xOutline),
                        U16(2 * xOutline + length), 1, color) >>

plotOctets(hemisphere, xCenter, yCenter, xOutline, yOutline, length, color) ==
  IF hemisphere = "Top"
  THEN << setScreenData(U16(xCenter - yOutline), U16(yCenter - xOutline),
                        U16(2 * yOutline + length), 1, color),
          setScreenData(U16(xCenter - xOutline), U16(yCenter - yOutline),
                        U16(2 * xOutline + length), 1, color) >>
  ELSE << setScreenData(U16(xCenter - xOutline), U16(yCenter + yOutline),
                        U16(2 * xOutline + length), 1, color),
          setScreenData(U16(xCenter - yOutline), U16(yCenter + xOutline),
                        U16(2 * yOutline + length), 1, color) >>

\* for (xPoint = 0; xPoint <= yPoint ...; xPoint++) of drawShape, entered
\* with yPoint = 0: each turn recomputes yPoint and plots two runs.
RECURSIVE ArcLoop(_, _, _, _, _, _, _, _)
ArcLoop(hemisphere, xCenter, yCenter, r, length, color, xPoint, yPoint) ==
  IF xPoint <= yPoint
  THEN LET yNext == circleAlgo(xPoint, r)
       IN  plotOctets(hemisphere, xCenter, yCenter, xPoint, yNext, length,
                      color)
           \o ArcLoop(hemisphere, xCenter, yCenter, r, length, color,
                      U16(xPoint + 1), yNext)
  ELSE << >>

\* Variant: the rounding accepted without comparing the radius with the
\* origin.
ShapeFlags_NoOriginCheck(xAxis, yAxis, length, breadth, radius, strokeWidth) ==
  LET rectOk == ~(length > _width \/ breadth > _height)
                /\ ~(length = 0 \/ breadth = 0)
      diameter == U16(2 * radius)
      circleOk == /\ rectOk
                  /\ ~(U16(diameter + 2 * strokeWidth + xAxis) > _width)
                  /\ ~(U16(diameter + 2 * strokeWidth + yAxis) > _height)
                  /\ radius # 0
                  /\ ~(diameter > length \/ diameter > breadth)
  IN  [isDrawRect |-> rectOk, isDrawCircle |-> circleOk,
       isDrawLine |-> FALSE, isDrawPixel |-> FALSE]

\* Variant: the line and pixel fall-backs switched on (a line when neither
\* circle nor rectangle can be drawn, a pixel when no line can).
ShapeFlags_LineEnabled(xAxis, yAxis, length, breadth, radius, strokeWidth) ==
  LET rectOk == ~(length > _width \/ breadth > _height)
                /\ ~(length = 0 \/ breadth = 0)
      diameter == U16(2 * radius)
      circleOk == /\ rectOk
                  /\ ~(U16(diameter + 2 * strokeWidth + xAxis) > _width)
                  /\ ~(U16(diameter + 2 * strokeWidth + yAxis) > _height)
                  /\ radius # 0
                  /\ ~(diameter > length \/ diameter > breadth)
                  /\ ~(radius > xAxis \/ radius > yAxis)
      lineOk == /\ ~(circleOk \/ rectOk)
                /\ ~(length = 0 /\ breadth = 0)
                /\ ~(U16(length + xAxis) > _width)
                /\ ~(U16(breadth + yAxis) > _height)
      pixelOk == /\ ~lineOk
                 /\ ~(xAxis > _width \/ yAxis > _height)
  IN  [isDrawRect |-> rectOk, isDrawCircle |-> circleOk,
       isDrawLine |-> lineOk, isDrawPixel |-> pixelOk]

\* The four validation flags of drawShape, as they stand at its line 128.
ShapeFlags(xAxis, yAxis, length, breadth, radius, strokeWidth) ==
  LET rectOk == ~(length > _width \/ breadth > _height)
                /\ ~(length = 0 \/ breadth = 0)
      diameter == U16(2 * radius)
      cx0 == U16(diameter + 2 * strokeWidth + xAxis)
      cy0 == U16(diameter + 2 * strokeWidth + yAxis)
      circleOk == /\ rectOk
                  /\ ~(cx0 > _width)
                  /\ ~(cy0 > _height)
                  /\ radius # 0
                  /\ ~(diameter > length \/ diameter > breadth)
                  /\ ~(radius > xAxis \/ radius > yAxis)
      lx0 == U16(length + xAxis)
      ly0 == U16(breadth + yAxis)
      lineOk == /\ (circleOk /\ rectOk /\ FALSE)
                /\ ~(length = 0 /\ breadth = 0)
                /\ ~(lx0 > _width)
                /\ ~(ly0 > _height)
      pixelOk == /\ (lineOk /\ FALSE)
                 /\ ~(xAxis > _width \/ yAxis > _height)
  IN  [isDrawRect |-> rectOk, isDrawCircle |-> circleOk,
       isDrawLine |-> lineOk, isDrawPixel |-> pixelOk]

\* Variant: the fill run of the mid section written whatever the flags say.
MidSection_Unguarded(f, xAxis, yAxis, length, breadth, radius, strokeWidth, strokeColor, fillColor, xFill, xFillCounts) ==
  << setScreenData(xAxis, U16(yAxis + radius), xFill, xFillCounts,
                   fillColor) >>

\* The mid section of drawShape: the fill run of the rectangle, line or
\* pixel, then the stroke runs of its sides and, for square corners, of its
\* top and bottom edges.  f holds the validation flags.
MidSection(f, xAxis, yAxis, length, breadth, radius, strokeWidth, strokeColor, fillColor, xFill, xFillCounts) ==
  LET sides == << setScreenData(U16(xAxis - strokeWidth - 1),
                                U16(yAxis + radius), strokeWidth,
                                xFillCounts, strokeColor),
                  setScreenData(U16(xAxis + length + 1),
                                U16(yAxis + radius), strokeWidth,
                                xFillCounts, strokeColor) >>
      startPos == U16(xAxis + radius - strokeWidth)
      strokeLen == U16(length + strokeWidth + strokeWidth)
      caps == << setScreenData(startPos, yAxis, strokeLen, strokeWidth,
                               strokeColor),
                 setScreenData(U16(startPos - 1), U16(yAxis + breadth),
                               U16(strokeLen + 1), strokeWidth,
                               strokeColor) >>
  IN  IF f.isDrawRect \/ f.isDrawLine \/ f.isDrawPixel
      THEN << setScreenData(xAxis, U16(yAxis + radius), xFill, xFillCounts,
                            fillColor) >>
           \o (IF strokeWidth > 0 THEN sides ELSE << >>)
           \o (IF strokeWidth > 0 /\ ~f.isDrawCircle THEN caps ELSE << >>)
      ELSE << >>

\* The setScreenData calls of one drawShape call, in order.
drawShape(xAxis, yAxis, length, breadth, radius0, strokeWidth, strokeColor, fillColor) ==
  LET f == ShapeFlags(xAxis, yAxis, length, breadth, radius0, strokeWidth)
      radius == IF f.isDrawCircle THEN radius0 ELSE 0
      diameter == IF f.isDrawCircle THEN U16(2 * radius0) ELSE 0
      roundRectLength == IF f.isDrawRect THEN U16(length - diameter)
                         ELSE length
      roundedRectBreadth == IF f.isDrawRect THEN U16(breadth - diameter)
                            ELSE breadth
      xFill == IF f.isDrawPixel THEN 1
               ELSE IF f.isDrawLine
                    THEN (IF breadth = 0 THEN length ELSE 1)
                    ELSE IF f.isDrawRect THEN length ELSE 0
      xFillCounts == IF f.isDrawPixel THEN 1
                     ELSE IF f.isDrawLine
                          THEN (IF breadth = 0 THEN 1 ELSE breadth)
                          ELSE IF f.isDrawRect THEN roundedRectBreadth ELSE 0
      xCenter == U16(xAxis + radius)
      yCenter == U16(yAxis + radius)
      topStroke == IF radius > 0 /\ strokeWidth > 0
                   THEN ArcLoop("Top", xCenter, yCenter,
                                U16(radius + strokeWidth), roundRectLength,
                                strokeColor, 0, 0)
                   ELSE << >>
      topFill == IF radius > 0
                 THEN ArcLoop("Top", xCenter, yCenter, radius,
                              roundRectLength, fillColor, 0, 0)
                 ELSE << >>
      mid == MidSection(f, xAxis, yAxis, length, breadth, radius,
                        strokeWidth, strokeColor, fillColor, xFill,
                        xFillCounts)
      bottomStroke == IF radius > 0 /\ strokeWidth > 0
                      THEN ArcLoop("Bottom", xCenter,
                                   U16(yCenter + xFillCounts),
                                   U16(radius + strokeWidth),
                                   roundRectLength, strokeColor, 0, 0)
                      ELSE << >>
      bottomFill == IF radius > 0
                    THEN ArcLoop("Bottom", xCenter,
                                 U16(yCenter + xFillCounts), radius,
                                 roundRectLength, fillColor, 0, 0)
                    ELSE << >>
  IN  topStroke \o topFill \o mid \o bottomStroke \o bottomFill

\* Variant: the last column and row instead of the extents.
fillScreen_Inclusive(color) ==
  << setScreenData(0, 0, _width - 1, _height - 1, color) >>

\* The setScreenData call of fillScreen.
fillScreen(color) == << setScreenData(0, 0, _width, _height, color) >>

\* Memory-access-control pattern of each rotation.
MadctlOf(rot) ==
  CASE rot = 0 -> MADCTL_MX + MADCTL_BGR
    [] rot = 1 -> MADCTL_MV + MADCTL_BGR
    [] rot = 2 -> MADCTL_MY + MADCTL_BGR
    [] OTHER   -> MADCTL_MX + MADCTL_MY + MADCTL_MV + MADCTL_BGR

\* Variant: rotation 3 keeps the portrait extents.
ExtentsOf_NoSwap(rot) ==
  CASE rot = 1 -> << TFT_HEIGHT, TFT_WIDTH >>
    [] OTHER   -> << TFT_WIDTH, TFT_HEIGHT >>

\* _width and _height as setRotation assigns them, <<_width, _height>>.
ExtentsOf(rot) ==
  CASE rot = 0 -> << TFT_WIDTH, TFT_HEIGHT >>
    [] rot = 1 -> << TFT_HEIGHT, TFT_WIDTH >>
    [] rot = 2 -> << TFT_WIDTH, TFT_HEIGHT >>
    [] OTHER   -> << TFT_HEIGHT, TFT_WIDTH >>

\* The init table, byte for byte: opcode, argument count, arguments.
initcmd ==
  << ILI9341_PWCTRA, 5, 57, 44, 0, 52, 2,
     ILI9341_CMD_CF, 3, 0, 193, 48,
     ILI9341_TIMCTRA, 3, 133, 0, 120,
     ILI9341_TIMCTRC, 2, 0, 0,
     ILI9341_POWSEQ, 4, 100, 3, 18, 129,
     ILI9341_PUMPRAT, 1, 32,
     ILI9341_PWCTR1, 1, 35,
     ILI9341_PWCTR2, 1, 16,
     ILI9341_VMCTR1, 2, 62, 40,
     ILI9341_VMCTR2, 1, 134,
     ILI9341_MADCTL, 1, 72,
     ILI9341_PIXFMT, 1, 85,
     ILI9341_FRMCTR1, 2, 0, 24,
     ILI9341_DFUNCTR, 3, 8, 130, 39,
     ILI9341_INTFCTR, 2, 1, 48,
     ILI9341_EN3GAM, 1, 0,
     ILI9341_GAMMASET, 1, 1,
     ILI9341_GMCTRP1, 15, 15, 53, 49, 11, 14, 6, 73, 167, 51,
        7, 15, 3, 12, 10, 0,
     ILI9341_GMCTRN1, 15, 0, 10, 15, 4, 17, 8, 54, 88, 77,
        7, 16, 12, 50, 52, 15,
     ILI9341_SLPOUT, 1, 128,
     ILI9341_DISPON, 1, 128,
     ILI9341_NOP, 0 >>

\* Variant: the settle delay is taken before sleep-out.
RECURSIVE InitLoop_DelayAtSleepOut(_)
InitLoop_DelayAtSleepOut(addr) ==
  LET cmd == initcmd[addr]
      numArgs == initcmd[addr + 1]
  IN  IF cmd > 0
      THEN (IF cmd = ILI9341_SLPOUT THEN << Ev("DELAY", 0, 0) >> ELSE << >>)
           \o sendCommand(cmd, SubSeq(initcmd, addr + 2, addr + 1 + numArgs))
           \o InitLoop_DelayAtSleepOut(addr + 2 + numArgs)
      ELSE << >>

\* The while loop of begin; addr is the (1-based) position of the next
\* opcode in initcmd.
RECURSIVE InitLoop(_)
InitLoop(addr) ==
  LET cmd == initcmd[addr]
      numArgs == initcmd[addr + 1]
  IN  IF cmd > 0
      THEN (IF cmd = ILI9341_DISPON THEN << Ev("DELAY", 0, 0) >> ELSE << >>)
           \o sendCommand(cmd, SubSeq(initcmd, addr + 2, addr + 1 + numArgs))
           \o InitLoop(addr + 2 + numArgs)
      ELSE << >>

\* Pin writes and transfers of begin, after initSPI has configured the pins.
begin == SPI_START \o InitLoop(1) \o SPI_END

\* sendCommand fetches every argument with pgm_read_byte, a read of program
\* memory.  For a buffer that lives in RAM the byte fetched is whatever the
\* flash holds at that address: the same bytes, or other ones.
RamReads(bytes) ==
  { bytes, [i \in DOMAIN bytes |-> 255 - bytes[i]] }

\* Pin writes and transfers of setRotation; rd is what pgm_read_byte
\* returned for &m.
setRotation(rd) ==
  SPI_START \o sendCommand(ILI9341_MADCTL, rd) \o SPI_END

scrollTo(rd) ==
  SPI_START \o sendCommand(ILI9341_VSCRSADD, rd) \o SPI_END

\* The six bytes setScrollMargins places in data[].
ScrollMarginData(top, bottom) ==
  LET middle == U16(TFT_HEIGHT - U16(top + bottom))
  IN  << top \div 256, top % 256, middle \div 256, middle % 256,
         bottom \div 256, bottom % 256 >>

setScrollMargins(top, bottom, rd) ==
  IF U16(top + bottom) <= TFT_HEIGHT
  THEN SPI_START \o sendCommand(ILI9341_VSCRDEF, rd) \o SPI_END
  ELSE << >>

RECURSIVE Probes(_)
Probes(n) == IF n = 0 THEN << >> ELSE writeSPI(0) \o Probes(n - 1)

\* do { writeSPI(0x00) } while (index--): index + 1 transfers.
readcommand8(commandByte, index) ==
  writeCommand(commandByte) \o Probes(index + 1)

readcommand(commandByte, index, rd) ==
  SPI_START \o sendCommand(217, rd) \o readcommand8(commandByte, index)
  \o SPI_END

(***************************** pin levels **********************************)
\* Chip-select level after the first i events of tr, starting from c0.
RECURSIVE CsScan(_, _, _)
CsScan(tr, i, c0) ==
  IF i = 0 THEN c0
  ELSE IF tr[i].k = "START" THEN LOW
  ELSE IF tr[i].k = "END" THEN HIGH
  ELSE CsScan(tr, i - 1, c0)

CsAfter(tr, c0) == CsScan(tr, Len(tr), c0)

\* Data/command level after the first i events of tr, starting from d0.
RECURSIVE DcScan(_, _, _)
DcScan(tr, i, d0) ==
  IF i = 0 THEN d0
  ELSE IF tr[i].k = "DC" THEN tr[i].v
  ELSE DcScan(tr, i - 1, d0)

DcAfter(tr, d0) == DcScan(tr, Len(tr), d0)

(********************* TFT_SPI drawing primitives **************************)
\* A window programmed directly by a primitive and the pixels written to it.
WindowRun(x0, y0, x1, y2, color, num) ==
  [x0 |-> U16(x0), y0 |-> U16(y0), x1 |-> U16(x1), y2 |-> U16(y2),
   color |-> color, num |-> num]

OffScreen(x, y) == x < 0 \/ x >= _width \/ y < 0 \/ y >= _height

drawPixelRuns(x, y, color) ==
  IF OffScreen(x, y) THEN << >>
  ELSE << WindowRun(x, y, x + 1, y + 1, color, 1) >>

\* The two colour bytes go out through writeSPI, with no write to _dc.
drawPixel(x, y, color) ==
  IF OffScreen(x, y) THEN << >>
  ELSE setAddressWindow(U16(x), U16(y), U16(x + 1), U16(y + 1))
       \o writeSPI(color \div 256) \o writeSPI(color) \o SPI_END

drawLineRuns(x, y, wh, line, color) ==
  IF OffScreen(x, y) THEN << >>
  ELSE IF line = "Horizontal"
       THEN << WindowRun(x, y, x + wh - 1, y, color, wh * 2) >>
       ELSE << WindowRun(x, y, x, y + wh - 1, color, wh * 2) >>

drawLine(x, y, wh, line, color) ==
  LET rs == drawLineRuns(x, y, wh, line, color)
  IN  IF rs = << >> THEN << >>
      ELSE setAddressWindow(rs[1].x0, rs[1].y0, rs[1].x1, rs[1].y2)
           \o writeData16(color, rs[1].num) \o SPI_END

fillRectRuns(x, y, w, h, color) ==
  IF OffScreen(x, y) THEN << >>
  ELSE << WindowRun(x, y, x + w - 1, y + h - 1, color, w * h) >>

\* More than 0xffff pixels are written as two writeData16 calls.
fillRect(x, y, w, h, color) ==
  LET rs == fillRectRuns(x, y, w, h, color)
      num == w * h
  IN  IF rs = << >> THEN << >>
      ELSE setAddressWindow(rs[1].x0, rs[1].y0, rs[1].x1, rs[1].y2)
           \o (IF num > 65535
               THEN writeData16(color, 65535) \o writeData16(color, num - 65535)
               ELSE writeData16(color, num))
           \o SPI_END

(***************************** colour packing ******************************)
\* Bitwise AND and OR of two naturals, bit by bit from the low end.
RECURSIVE BitAnd(_, _)
BitAnd(a, b) ==
  IF a = 0 \/ b = 0 THEN 0
  ELSE (a % 2) * (b % 2) + 2 * BitAnd(a \div 2, b \div 2)

RECURSIVE BitOr(_, _)
BitOr(a, b) ==
  IF a = 0 THEN b
  ELSE IF b = 0 THEN a
  ELSE (IF a % 2 = 1 \/ b % 2 = 1 THEN 1 ELSE 0)
       + 2 * BitOr(a \div 2, b \div 2)

\* v << n in a 16-bit int: the bits that leave the word are lost.
ShiftLeft(v, n) == U16(v * 2 ^ n)

ShiftRight(v, n) == v \div 2 ^ n

\* Variant: the channels shifted into place without their masks.
color565_Unmasked(red, green, blue) ==
  U16(BitOr(BitOr(ShiftLeft(red, 8), ShiftLeft(green, 3)),
            ShiftRight(blue, 3)))

\* ((red & 0xF8) << 8) | ((green & 0xFC) << 3) | (blue >> 3), returned as
\* uint16_t.
color565(red, green, blue) ==
  U16(BitOr(BitOr(ShiftLeft(BitAnd(red, 248), 8),
                  ShiftLeft(BitAnd(green, 252), 3)),
            ShiftRight(blue, 3)))

(***************************** requests ************************************)
\* 8-bit channel values on both sides of every mask boundary.
Channels == { 0, 3, 4, 7, 8, 131, 255 }

Colors == { 63488, 2016 }

StrokeColors == { 31 }

Strokes == { 0, MaxStroke }

Radii == { 0, 2, 5, MaxRadius }

\* xAxis, yAxis, length, breadth, radius, strokeWidth, strokeColor, fillColor
RectRequests ==
  { << x, 10, l, b, 0, sw, 31, 63488 >> :
      x \in { 0, 10, 200 }, l \in { 0, 50 },
      b \in { 0, 50, 300 }, sw \in Strokes }
  \cup { << 65535, 10, 50, 50, 0, 0, 31, 63488 >>,
         << 10, 300, 50, 50, 0, 0, 31, 63488 >>,
         << 20, 20, 0, 40, 5, MaxStroke, 31, 63488 >>,
         << 1, 1, 2, 2, 1, MaxStroke, 31, 63488 >>,
         << 20, 20, 10, 10, MaxRadius, 0, 31, 63488 >>,
         << 220, 20, 2 * MaxRadius, 2 * MaxRadius, MaxRadius, MaxStroke,
            31, 63488 >>,
         << 65024, 65024, 2, 2, 1, 255, 31, 63488 >>,
         << 65022, 65022, 4, 4, 2, 255, 31, 63488 >>,
         << 65532, 65532, 10, 10, 32770, 0, 31, 63488 >> }

FullRequests ==
  { << 0, 0, wh[1], wh[2], 0, 0, 31, c >> :
      wh \in { << TFT_WIDTH, TFT_HEIGHT >>, << TFT_HEIGHT, TFT_WIDTH >> },
      c \in Colors }

RoundRequests ==
  UNION { { << o, o, lb[1], lb[2], r, sw, 31, 63488 >> :
              o \in { 3, 20 },
              lb \in { << 2 * r, 2 * r >>, << 60, 40 >> }, sw \in Strokes } :
          r \in Radii }

ShapeRequests == RectRequests \cup FullRequests \cup RoundRequests

(****************************** actions ************************************)
\* History of the call before the last one, kept only when fillScreen
\* follows fillScreen: its colour and what it put on the bus.
NoFill == [name |-> "none", args |-> << >>, bus |-> << >>]

Init ==
  /\ rotation = 0
  /\ _width = TFT_WIDTH
  /\ _height = TFT_HEIGHT
  /\ cs \in { LOW, HIGH }
  /\ dc \in { LOW, HIGH }
  /\ call = [name |-> "none", args |-> << >>, ret |-> 0]
  /\ bus = << >>
  /\ runs = << >>
  /\ prev = NoFill

\* What every entry point leaves behind: its name and arguments, what it
\* returned, the events it put on the bus and the pin levels they end in.
Returns(name, args, ret, tr, rs) ==
  /\ call' = [name |-> name, args |-> args, ret |-> ret]
  /\ bus' = tr
  /\ runs' = rs
  /\ cs' = CsAfter(tr, cs)
  /\ dc' = DcAfter(tr, dc)
  /\ prev' = IF call.name = "fillScreen" /\ name = "fillScreen"
             THEN [name |-> call.name, args |-> call.args, bus |-> bus]
             ELSE NoFill

Begin ==
  /\ Returns("begin", << >>, 0, begin, << >>)
  /\ UNCHANGED << rotation, _width, _height >>

SetRotation ==
  \E m \in { 0, 1, 2, 3, 6, 255 } :
    \E rd \in RamReads(<< MadctlOf(m % 4) >>) :
      /\ rotation' = m % 4
      /\ _width' = ExtentsOf(m % 4)[1]
      /\ _height' = ExtentsOf(m % 4)[2]
      /\ Returns("setRotation", << m >>, 0, setRotation(rd), << >>)

ScrollTo ==
  \E y \in { 0, 319, 65535 } :
    \E rd \in RamReads(<< y \div 256, y % 256 >>) :
      /\ Returns("scrollTo", << y >>, 0, scrollTo(rd), << >>)
      /\ UNCHANGED << rotation, _width, _height >>

SetScrollMargins ==
  \E top \in { 0, 20, 65535 }, bottom \in { 0, 301 } :
    \E rd \in RamReads(ScrollMarginData(top, bottom)) :
      /\ Returns("setScrollMargins", << top, bottom >>, 0,
                 setScrollMargins(top, bottom, rd), << >>)
      /\ UNCHANGED << rotation, _width, _height >>

Readcommand ==
  \E commandByte \in { 9 }, index \in 0 .. MaxIndex, miso \in { 0, 202 } :
    \E rd \in RamReads(<< U8(16 + index) >>) :
      /\ Returns("readcommand", << commandByte, index >>, miso,
                 readcommand(commandByte, index, rd), << >>)
      /\ UNCHANGED << rotation, _width, _height >>

FillScreen ==
  \E color \in Colors :
    /\ Returns("fillScreen", << color >>, 0, RunsBus(fillScreen(color)),
               fillScreen(color))
    /\ UNCHANGED << rotation, _width, _height >>

DrawShape ==
  \E q \in ShapeRequests :
    LET rs == drawShape(q[1], q[2], q[3], q[4], q[5], q[6], q[7], q[8])
    IN  /\ Returns("drawShape", q, 0, RunsBus(rs), rs)
        /\ UNCHANGED << rotation, _width, _height >>

DrawPixel ==
  \E x \in { -1, 20, 240 }, y \in { 20, 320 } :
    /\ Returns("drawPixel", << x, y, 65504 >>, 0, drawPixel(x, y, 65504),
               drawPixelRuns(x, y, 65504))
    /\ UNCHANGED << rotation, _width, _height >>

DrawLine ==
  \E x \in { -1, 20 }, wh \in { 1, 30 }, line \in { "Horizontal", "Vertical" } :
    /\ Returns("drawLine", << x, 20, wh, line, 65504 >>, 0,
               drawLine(x, 20, wh, line, 65504),
               drawLineRuns(x, 20, wh, line, 65504))
    /\ UNCHANGED << rotation, _width, _height >>

FillRect ==
  \E x \in { -1, 0, 20 }, wh \in { << 1, 1 >>, << 30, 10 >>, << 240, 320 >> } :
    /\ Returns("fillRect", << x, 0, wh[1], wh[2], 65504 >>, 0,
               fillRect(x, 0, wh[1], wh[2], 65504),
               fillRectRuns(x, 0, wh[1], wh[2], 65504))
    /\ UNCHANGED << rotation, _width, _height >>

\* color565 touches no pin and keeps no state: only its result is left.
Color565 ==
  \E red \in Channels, green \in Channels, blue \in Channels :
    /\ call' = [name |-> "color565", args |-> << red, green, blue >>,
                ret |-> color565(red, green, blue)]
    /\ bus' = << >>
    /\ runs' = << >>
    /\ prev' = NoFill
    /\ UNCHANGED << rotation, _width, _height, cs, dc >>

Next ==
  \/ Begin
  \/ SetRotation
  \/ ScrollTo
  \/ SetScrollMargins
  \/ Readcommand
  \/ FillScreen
  \/ DrawShape
  \/ DrawPixel
  \/ DrawLine
  \/ FillRect

Spec == Init /\ [][Next]_vars

\* The colour packing on its own: a pure function of its three arguments.
PackNext == Color565

PackSpec == Init /\ [][PackNext]_vars

(************************* properties of the driver ************************)
Count(tr, k) == Cardinality({ i \in DOMAIN tr : tr[i].k = k })

EntryPoints ==
  { "begin", "setRotation", "scrollTo", "setScrollMargins", "readcommand",
    "fillScreen", "drawShape" }

\* The fields of the last drawShape request.
ReqX == call.args[1]
ReqY == call.args[2]
ReqLength == call.args[3]
ReqBreadth == call.args[4]
ReqRadius == call.args[5]
ReqStroke == call.args[6]
ReqStrokeColor == call.args[7]
ReqFillColor == call.args[8]

IsDrawShape == call.name = "drawShape"

ReqFlags ==
  ShapeFlags(ReqX, ReqY, ReqLength, ReqBreadth, ReqRadius, ReqStroke)

\* C1: whenever a public entry point has returned, it has closed every
\* transaction it opened (as many SPI_END as SPI_START), and chip-select,
\* which it asserted, is deasserted again.
C1_TransactionsPaired ==
  call.name \in EntryPoints =>
    /\ Count(bus, "START") = Count(bus, "END")
    /\ Count(bus, "START") > 0 => cs = HIGH

\* C2: every address window programmed by fillScreen or drawShape lies
\* inside the current extents: x0 <= x1 <= width-1 and y0 <= y2 <= height-1.
C2_WindowsInsideDisplay ==
  call.name \in { "fillScreen", "drawShape" } =>
    \A i \in DOMAIN runs :
      /\ runs[i].x0 <= runs[i].x1 /\ runs[i].x1 <= _width - 1
      /\ runs[i].y0 <= runs[i].y2 /\ runs[i].y2 <= _height - 1

\* C3: the pixel count written after a window equals the number of pixels
\* of that window, (x1-x0+1)*(y2-y0+1), in unsigned 16-bit arithmetic.
C3_RunSizedToWindow ==
  \A i \in DOMAIN runs :
    runs[i].num =
      U16((runs[i].x1 - runs[i].x0 + 1) * (runs[i].y2 - runs[i].y0 + 1))

\* C4: the rotation is always one of 0..3 and the extents are always the
\* ones of that rotation, 240x320 for 0 and 2 and 320x240 for 1 and 3;
\* setRotation(m) selects rotation m mod 4, for every m in 0..255.
C4_RotationExtents ==
  /\ rotation \in 0 .. 3
  /\ << _width, _height >> =
       (IF rotation \in { 0, 2 } THEN << 240, 320 >> ELSE << 320, 240 >>)
  /\ 0 < _width /\ _width <= 320 /\ 0 < _height /\ _height <= 320
  /\ { _width, _height } = { 240, 320 }
  /\ call.name = "setRotation" => rotation = call.args[1] % 4
  /\ \A m \in 0 .. 255 :
       ExtentsOf(m % 4) =
         (IF (m % 4) \in { 0, 2 } THEN << 240, 320 >> ELSE << 320, 240 >>)

C4_Witness ==
  /\ call.name = "setRotation" /\ call.args[1] = 255
  /\ rotation = 3 /\ _width = 320 /\ _height = 240

\* C5: drawShape selects at most one of rectangle, line and pixel, and when
\* it selects none it programs no window and writes nothing to the bus.
C5_OneKindOrNothing ==
  IsDrawShape =>
    LET kinds == (IF ReqFlags.isDrawRect THEN { "rectangle" } ELSE { })
                 \cup (IF ReqFlags.isDrawLine THEN { "line" } ELSE { })
                 \cup (IF ReqFlags.isDrawPixel THEN { "pixel" } ELSE { })
    IN  /\ Cardinality(kinds) <= 1
        /\ kinds = { } => runs = << >> /\ bus = << >>

C5_Witness ==
  /\ IsDrawShape
  /\ ReqLength > 0 /\ ReqBreadth > _height
  /\ ~ReqFlags.isDrawRect /\ ~ReqFlags.isDrawLine /\ ~ReqFlags.isDrawPixel
  /\ runs = << >>

\* On-screen bounding box of the last request, in true integers.
ReqBoxOnScreen ==
  ReqX + ReqLength <= _width /\ ReqY + ReqBreadth <= _height

\* C6: a valid square-cornered, unstroked rectangle is drawn as exactly one
\* window {x, y, x+length, y+breadth} and one run of
\* (length+1)*(breadth+1) pixels of fillColor.
C6_SquareRectOneExactRun ==
  ( /\ IsDrawShape
    /\ ReqRadius = 0 /\ ReqStroke = 0
    /\ 0 < ReqLength /\ ReqLength <= _width
    /\ 0 < ReqBreadth /\ ReqBreadth <= _height
    /\ ReqBoxOnScreen )
  => runs = << [x0 |-> ReqX, y0 |-> ReqY,
                x1 |-> ReqX + ReqLength, y2 |-> ReqY + ReqBreadth,
                color |-> ReqFillColor,
                num |-> (ReqLength + 1) * (ReqBreadth + 1)] >>

\* round(sqrt(r^2 - i^2)) for 0 <= i <= r, by its defining inequalities:
\* the k with (k - 1/2)^2 <= r^2 - i^2 < (k + 1/2)^2.
HalfChord(i, r) ==
  CHOOSE k \in 0 .. r :
    /\ 4 * (r * r - i * i) < (2 * k + 1) * (2 * k + 1)
    /\ k = 0 \/ (2 * k - 1) * (2 * k - 1) <= 4 * (r * r - i * i)

\* Number of turns of an arc loop for radius r: turn i is taken when every
\* turn j before it left a half-chord of at least j + 1.
ArcSteps(r) ==
  Cardinality({ i \in 0 .. r :
                  \A j \in 1 .. i : j <= HalfChord(j - 1, r) })

\* The last request is an unstroked circle that satisfies the rounding
\* predicate: length = breadth = 2*radius, on-screen, radius <= origin.
ReqIsCircle ==
  /\ IsDrawShape
  /\ ReqRadius > 0 /\ ReqStroke = 0
  /\ ReqLength = 2 * ReqRadius /\ ReqBreadth = 2 * ReqRadius
  /\ ReqBoxOnScreen
  /\ ReqRadius <= ReqX /\ ReqRadius <= ReqY

\* One row run: pixels xc-h .. xc+h of row y, in the fill colour.
IsRowRun(run, xc, h, y) ==
  /\ run.x0 = xc - h /\ run.x1 = xc + h
  /\ run.y0 = y
  /\ run.num = 2 * h + 1
  /\ run.color = ReqFillColor

C9_OutOfBoxDropped ==
  (IsDrawShape /\ ~ReqBoxOnScreen) => runs = << >> /\ bus = << >>

\* C10: fillScreen(c) puts on the bus exactly what drawShape(0, 0, width,
\* height, 0, 0, any stroke colour, c) puts there, in every rotation: one
\* window program followed by one colour run.
C10_FillScreenIsFullRect ==
  /\ call.name = "fillScreen" =>
       /\ \A sc \in StrokeColors \cup Colors :
            bus = RunsBus(drawShape(0, 0, _width, _height, 0, 0, sc,
                                    call.args[1]))
       /\ Len(runs) = 1
       /\ Count(bus, "RUN") = 5
       /\ bus[Len(bus)] = Ev("RUN", call.args[1], runs[1].num)
  /\ ( /\ IsDrawShape
       /\ << ReqX, ReqY, ReqLength, ReqBreadth, ReqRadius, ReqStroke >>
            = << 0, 0, _width, _height, 0, 0 >> )
     => bus = RunsBus(fillScreen(ReqFillColor))

C10_Witness ==
  /\ call.name = "fillScreen"
  /\ rotation = 1
  /\ Len(runs) = 1 /\ runs[1].num > 0

\* The last two calls were fillScreen with the same colour.
FilledTwice ==
  /\ call.name = "fillScreen"
  /\ prev.name = "fillScreen"
  /\ prev.args = call.args

\* C11: two consecutive fillScreen calls with the same colour put the same
\* events on the bus: the same opcodes, argument bytes, selector-line
\* writes and colour run; and the selector line is written before the first
\* byte, so the levels do not depend on the state the call started in.
C11_FillScreenRepeats ==
  FilledTwice =>
    /\ bus = prev.bus
    /\ Len(bus) >= 2 /\ bus[2].k = "DC"
    /\ \A i \in DOMAIN bus : bus[i].k \in { "X", "RUN" } => i > 2

C11_Witness ==
  /\ FilledTwice
  /\ rotation = 1
  /\ Count(bus, "RUN") = 5 /\ bus[Len(bus)].n > 1

\* The last request was accepted as a rounded rectangle or a circle.
ReqIsRounded == IsDrawShape /\ ReqFlags.isDrawCircle

\* Runs of the mid section of a rounded request: the fill run and, with a
\* stroke, the two side runs.
MidRuns == IF ReqStroke > 0 THEN 3 ELSE 1

\* Runs of the top arcs (stroke loop, then fill loop) and of the bottom arcs.
ArcRuns == (Len(runs) - MidRuns) \div 2
TopArc == SubSeq(runs, 1, ArcRuns)
BottomArc == SubSeq(runs, ArcRuns + MidRuns + 1, Len(runs))

\* How many runs of rs write n pixels.
RunsOfLength(rs, n) == Cardinality({ i \in DOMAIN rs : rs[i].num = n })

Hi(v) == v \div 256
Lo(v) == v % 256

\* The byte values of the events tr, in order.
BytesOf(tr) == LET w == Wire(tr, LOW) IN [i \in DOMAIN w |-> w[i].b]

\* Operations that program an address window.
WindowOps == { "fillScreen", "drawShape", "drawPixel", "drawLine", "fillRect" }

RECURSIVE ByteCount(_, _, _)
ByteCount(tr, level, want) ==
  IF tr = << >> THEN 0
  ELSE IF Len(tr) = 1
  THEN LET e == tr[1]
       IN  IF level # want THEN 0
           ELSE IF e.k = "X" THEN 1
           ELSE IF e.k = "RUN" THEN 2 * e.n
           ELSE 0
  ELSE LET half == Len(tr) \div 2
           left == SubSeq(tr, 1, half)
       IN  ByteCount(left, level, want)
           + ByteCount(SubSeq(tr, half + 1, Len(tr)),
                       LevelAfter(left, half, level), want)

\* The last call programmed one window and filled it through writeData16.
OneWindowOneRun ==
  /\ call.name \in { "fillScreen", "drawShape", "drawLine", "fillRect" }
  /\ Len(runs) = 1

\* C14 as stated: a window program followed by a colour run of n pixels
\* carries 2 + 2 + 2*n data bytes.
C14_TwoDataBytesPerSet ==
  OneWindowOneRun => ByteCount(bus, LOW, HIGH) = 2 + 2 + 2 * runs[1].num

\* C14, amended: a window program followed by a colour run of n pixels
\* carries three command bytes and 4 + 4 + 2*n data bytes, in this order:
\* column set and four data bytes, row set and four data bytes, memory
\* write with no data byte, then n times the colour's high and low byte.
C14_FourDataBytesPerSet ==
  OneWindowOneRun =>
    LET n == runs[1].num
        window == Wire(SubSeq(bus, 1, 15), HIGH)
        colour == Wire(SubSeq(bus, 16, Len(bus)), LOW)
    IN  /\ ByteCount(bus, HIGH, LOW) = 3
        /\ ByteCount(bus, LOW, HIGH) = 4 + 4 + 2 * n
        /\ [i \in DOMAIN window |-> window[i].dc]
             = << LOW, HIGH, HIGH, HIGH, HIGH,
                  LOW, HIGH, HIGH, HIGH, HIGH, LOW >>
        /\ window[1].b = ILI9341_CASET
        /\ window[6].b = ILI9341_PASET
        /\ window[11].b = ILI9341_RAMWR
        /\ n <= MaxPixels =>
             colour = [j \in 1 .. 2 * n |->
                         [b |-> IF j % 2 = 1 THEN Hi(runs[1].color)
                                ELSE Lo(runs[1].color),
                          dc |-> HIGH]]

C14_Witness ==
  /\ call.name = "drawLine"
  /\ Len(runs) = 1 /\ runs[1].num = 2
  /\ ByteCount(bus, LOW, HIGH) = 12
  /\ Len(Wire(bus, LOW)) = 15

C16_SelectorFollowsRole ==
  /\ (call.name \in WindowOps /\ Len(runs) = 1) =>
       LET window == Wire(SubSeq(bus, 1, 15), HIGH)
       IN  /\ [i \in DOMAIN window |-> window[i].dc]
                = << LOW, HIGH, HIGH, HIGH, HIGH,
                     LOW, HIGH, HIGH, HIGH, HIGH, LOW >>
           /\ ByteCount(bus, HIGH, LOW) = 3
  /\ ( /\ call.name \in { "setRotation", "scrollTo", "setScrollMargins" }
       /\ bus # << >> ) =>
       /\ Wire(bus, HIGH)[1].dc = LOW
       /\ ByteCount(bus, HIGH, LOW) = 1

\* C17: setScrollMargins(top, bottom) sends the vertical-scroll-definition
\* command, with six argument bytes inside one transaction, when
\* top + bottom <= 320 in true integers, and puts nothing on the bus when
\* top + bottom > 320.
C17_MarginsWithinHeight ==
  call.name = "setScrollMargins" =>
    LET top == call.args[1]
        bottom == call.args[2]
    IN  IF top + bottom <= TFT_HEIGHT
        THEN /\ Len(Wire(bus, HIGH)) = 7
             /\ Wire(bus, HIGH)[1] = [b |-> ILI9341_VSCRDEF, dc |-> LOW]
             /\ Count(bus, "START") = 1 /\ Count(bus, "END") = 1
        ELSE bus = << >>

\* Number of leading bytes of w transferred with the selector line high.
RECURSIVE LeadingData(_)
LeadingData(w) ==
  IF w = << >> \/ w[1].dc # HIGH THEN 0 ELSE 1 + LeadingData(Tail(w))

\* The bytes w regrouped the way a command table lists them: each opcode
\* (selector line low), the number of data bytes that follow it, and those
\* bytes.
RECURSIVE AsTable(_)
AsTable(w) ==
  IF w = << >> THEN << >>
  ELSE LET n == LeadingData(Tail(w))
       IN  << w[1].b, n >>
           \o [i \in 1 .. n |-> w[i + 1].b]
           \o AsTable(SubSeq(w, n + 2, Len(w)))

\* Position of the settle delay on the bus of begin.
DelayAt == CHOOSE i \in DOMAIN bus : bus[i].k = "DELAY"

\* C18: begin sends, inside one transaction, the commands of the init
\* table in table order, each with exactly its argCount argument bytes, up
\* to the terminator, which it does not send; it takes the settle delay
\* once, directly before the display-on opcode and after sleep-out is sent.
C18_InitTableTraversed ==
  call.name = "begin" =>
    /\ bus[1].k = "START" /\ bus[Len(bus)].k = "END"
    /\ Count(bus, "START") = 1 /\ Count(bus, "END") = 1
    /\ Wire(bus, HIGH)[1].dc = LOW
    /\ AsTable(Wire(bus, HIGH)) \o << ILI9341_NOP, 0 >> = initcmd
    /\ Count(bus, "DELAY") = 1
    /\ bus[DelayAt + 1] = Ev("DC", LOW, 0)
    /\ bus[DelayAt + 2] = Ev("X", ILI9341_DISPON, 1)
    /\ \E j \in 2 .. DelayAt :
         bus[j] = Ev("X", ILI9341_SLPOUT, 1) /\ bus[j - 1] = Ev("DC", LOW, 0)

C18_Witness ==
  /\ call.name = "begin"
  /\ Count(bus, "DELAY") = 1
  /\ Len(Wire(bus, HIGH)) = Len(initcmd) - 2 - 21
  /\ ByteCount(bus, HIGH, LOW) = 21

\* C19: when begin returns, the last command on the bus is a
\* memory-access-control write with the pattern of rotation 0, and the
\* driver is in rotation 0 with the extents 240 x 320.
C19_BeginAppliesRotation0 ==
  call.name = "begin" =>
    LET w == Wire(bus, HIGH)
    IN  /\ w[Len(w) - 1] = [b |-> ILI9341_MADCTL, dc |-> LOW]
        /\ w[Len(w)] = [b |-> MADCTL_MX + MADCTL_BGR, dc |-> HIGH]
        /\ rotation = 0
        /\ _width = TFT_WIDTH /\ _height = TFT_HEIGHT

\* C20: readcommand(opcode, index) transfers, inside one transaction, the
\* index-select command 0xD9, the argument 0x10 + index, the opcode, and
\* then exactly index + 1 probe bytes 0x00.
C20_ReadcommandFrames ==
  call.name = "readcommand" =>
    LET opcode == call.args[1]
        index == call.args[2]
    IN  /\ bus[1].k = "START" /\ bus[Len(bus)].k = "END"
        /\ Count(bus, "START") = 1 /\ Count(bus, "END") = 1
        /\ BytesOf(bus) = << 217, (16 + index) % 256, opcode >>
                            \o [i \in 1 .. index + 1 |-> 0]

\* C21: for 8-bit red, green and blue, color565 returns
\* (red div 8)*2048 + (green div 4)*32 + (blue div 8), a 16-bit value whose
\* bits 15..11 hold red, bits 10..5 green and bits 4..0 blue, so that no
\* channel reaches into the field of another.
C21_Color565Packs ==
  call.name = "color565" =>
    LET red == call.args[1]
        green == call.args[2]
        blue == call.args[3]
    IN  /\ call.ret = (red \div 8) * 2048 + (green \div 4) * 32 + (blue \div 8)
        /\ call.ret \in 0 .. 65535
        /\ call.ret \div 2048 = red \div 8
        /\ (call.ret \div 32) % 64 = green \div 4
        /\ call.ret % 32 = blue \div 8

\* The low bits of green and red are dropped, all bits of the result set.
C21_Witness ==
  /\ call.name = "color565"
  /\ call.args = << 255, 255, 255 >>
  /\ call.ret = 65535

\* C22: a drawShape call that emits runs opens exactly one transaction,
\* before its first run, and closes it after its last run.
C22_OneTransactionPerShape ==
  (IsDrawShape /\ runs # << >>) =>
    /\ Count(bus, "START") = 1 /\ bus[1].k = "START"
    /\ Count(bus, "END") = 1 /\ bus[Len(bus)].k = "END"

\* A coordinate transfer: the first or second 16-bit value after a column
\* or page address command.
IsAddrCmd(e) == e.k = "X" /\ e.v \in { ILI9341_CASET, ILI9341_PASET }

IsCoordRun(i) ==
  /\ bus[i].k = "RUN"
  /\ \/ i > 2 /\ IsAddrCmd(bus[i - 2])
     \/ i > 4 /\ IsAddrCmd(bus[i - 4]) /\ bus[i - 2].k = "RUN"

\* Positions of the colour runs on the bus: every other 16-bit transfer.
ColourRuns == { i \in DOMAIN bus : bus[i].k = "RUN" /\ ~IsCoordRun(i) }

\* C23: on the bus of fillScreen and drawShape every colour run comes
\* directly after an address-window program of its own (column set, page
\* set, memory write, then the selector raised), whose coordinates and
\* colour are those of one setScreenData call; nothing else lies between
\* the memory-write opcode and the colour bytes.
C23_RunAfterOwnWindow ==
  call.name \in { "fillScreen", "drawShape" } =>
    \A i \in ColourRuns :
      /\ i > 16
      /\ SubSeq(bus, i - 16, i - 1) =
           setAddressWindow(bus[i - 12].v, bus[i - 6].v, bus[i - 10].v,
                            bus[i - 4].v) \o << Ev("DC", HIGH, 0) >>
      /\ \E k \in DOMAIN runs :
           runs[k] = [x0 |-> bus[i - 12].v, y0 |-> bus[i - 6].v,
                      x1 |-> bus[i - 10].v, y2 |-> bus[i - 4].v,
                      color |-> bus[i].v, num |-> bus[i].n]

\* A stroked square-cornered rectangle: five colour runs, the second in a
\* window other than the first.
C23_Witness ==
  /\ IsDrawShape /\ Len(runs) = 5
  /\ Cardinality(ColourRuns) = 5
  /\ 17 \in ColourRuns /\ 34 \in ColourRuns
  /\ bus[22].v # bus[5].v
  /\ bus[34].v = ReqStrokeColor

\* The last request cannot be a rectangle but is a line: exactly one of
\* length and breadth is zero and the extent fits the display.
ReqIsLine ==
  /\ IsDrawShape /\ ~ReqFlags.isDrawRect
  /\ (ReqLength = 0) # (ReqBreadth = 0)
  /\ ReqBoxOnScreen

\* The last request is neither a rectangle nor a line, with its origin on
\* the display.
ReqIsPixel ==
  /\ IsDrawShape /\ ~ReqFlags.isDrawRect /\ ~ReqIsLine
  /\ ReqX < _width /\ ReqY < _height

\* C24: a request that cannot be a rectangle falls back to a line, one run
\* from the origin that is one pixel thick, and otherwise to a pixel, one
\* 1x1 run at the origin.
C24_LineThenPixelFallback ==
  /\ (ReqIsLine /\ ReqStroke = 0) =>
       /\ Len(runs) = 1
       /\ runs[1].x0 = ReqX /\ runs[1].y0 = ReqY
       /\ runs[1].color = ReqFillColor
       /\ IF ReqBreadth = 0 THEN runs[1].num \in { ReqLength, ReqLength + 1 }
          ELSE runs[1].num \in { ReqBreadth, ReqBreadth + 1 }
  /\ (ReqIsPixel /\ ReqStroke = 0) =>
       /\ Len(runs) = 1
       /\ runs[1].x0 = ReqX /\ runs[1].y0 = ReqY
       /\ runs[1].color = ReqFillColor

\* The radius of the last request fails the rounding predicate, in true
\* integers: zero, wider than the rectangle, circle and stroke off the
\* display, or larger than a coordinate of the origin.
ReqRoundingFails ==
  \/ ReqRadius = 0
  \/ 2 * ReqRadius > ReqLength \/ 2 * ReqRadius > ReqBreadth
  \/ ReqX + 2 * ReqRadius + 2 * ReqStroke > _width
  \/ ReqY + 2 * ReqRadius + 2 * ReqStroke > _height
  \/ ReqRadius > ReqX \/ ReqRadius > ReqY

\* The runs of the last request with its radius replaced by zero.
ReqSquareRuns ==
  drawShape(ReqX, ReqY, ReqLength, ReqBreadth, 0, ReqStroke, ReqStrokeColor,
            ReqFillColor)

\* C25: a valid rectangle (positive sides, bounding box on the display)
\* whose radius fails the rounding predicate is drawn, and what it puts on
\* the bus is what the same request with radius 0 puts there.
C25_FailedRoundingDrawnSquare ==
  ( /\ IsDrawShape
    /\ ReqLength > 0 /\ ReqBreadth > 0 /\ ReqBoxOnScreen
    /\ ReqRoundingFails )
  => /\ runs # << >>
     /\ runs = ReqSquareRuns
     /\ bus = RunsBus(ReqSquareRuns)

\* A positive radius that no coordinate of the origin reaches, on a valid
\* rectangle with a stroke: drawn as five square-cornered runs.
C25_Witness ==
  /\ IsDrawShape
  /\ ReqLength > 0 /\ ReqBreadth > 0 /\ ReqBoxOnScreen
  /\ ReqRadius > ReqX /\ 2 * ReqRadius <= ReqLength
  /\ ReqStroke > 0
  /\ Len(runs) = 5
  /\ runs[1].y0 = ReqY

\* Columns of the window of a run, and the rows its pixels reach when the
\* controller fills the window row by row.
RunCols(run) == run.x0 .. run.x1

RunRows(run) ==
  IF run.num = 0 \/ run.x1 < run.x0 THEN { }
  ELSE run.y0 .. run.y0 + (run.num - 1) \div (run.x1 - run.x0 + 1)

RunsOverlap(a, b) ==
  RunCols(a) \cap RunCols(b) # { } /\ RunRows(a) \cap RunRows(b) # { }

\* C26: for a valid square-cornered rectangle with a stroke, the four
\* stroke runs that follow the fill run share no pixel with it.
C26_StrokeFramesFill ==
  ( /\ IsDrawShape
    /\ ReqLength > 0 /\ ReqBreadth > 0 /\ ReqBoxOnScreen
    /\ ~ReqFlags.isDrawCircle
    /\ ReqStroke > 0 )
  => /\ Len(runs) = 5
     /\ runs[1].color = ReqFillColor
     /\ \A k \in 2 .. 5 :
          /\ runs[k].color = ReqStrokeColor
          /\ ~RunsOverlap(runs[1], runs[k])

\* C27: for every request drawShape accepts, no window coordinate is the
\* product of 16-bit wrap-around: the start expressions are not negative
\* and the sums stay below 65536 in true integers, so that every window
\* on the bus starts at or before the column and row it ends at.
C27_NoWrapAround ==
  (IsDrawShape /\ runs # << >>) =>
    LET radius == IF ReqFlags.isDrawCircle THEN ReqRadius ELSE 0
    IN  /\ ReqStroke > 0 => ReqX - ReqStroke - 1 >= 0
        /\ (ReqStroke > 0 /\ radius = 0) =>
             ReqX + radius - ReqStroke - 1 >= 0
        /\ (ReqStroke > 0 /\ radius > 0) =>
             /\ ReqX + radius - (radius + ReqStroke) >= 0
             /\ ReqY + radius - (radius + ReqStroke) >= 0
        /\ 2 * ReqRadius <= 65535
        /\ 2 * ReqRadius + 2 * ReqStroke + ReqX <= 65535
        /\ ReqLength + ReqX <= 65535
        /\ \A k \in DOMAIN runs :
             runs[k].x0 <= runs[k].x1 /\ runs[k].y0 <= runs[k].y2

\* C28: the bytes on the bus after a sendCommand are the command and then
\* the argument bytes of the caller, in order: the access-control pattern
\* of m mod 4 for setRotation, the two bytes of y for scrollTo, the six
\* margin bytes for setScrollMargins.
C28_ArgumentsAsSupplied ==
  /\ call.name = "setRotation" =>
       BytesOf(bus) = << ILI9341_MADCTL, MadctlOf(call.args[1] % 4) >>
  /\ call.name = "scrollTo" =>
       BytesOf(bus) = << ILI9341_VSCRSADD, Hi(call.args[1]), Lo(call.args[1]) >>
  /\ (call.name = "setScrollMargins" /\ bus # << >>) =>
       BytesOf(bus) = << ILI9341_VSCRDEF >>
                      \o ScrollMarginData(call.args[1], call.args[2])

\* Rows that receive pixels of the fill colour from the runs of the last
\* call.
FillRows ==
  UNION { RunRows(runs[k]) : k \in { j \in DOMAIN runs : runs[j].color = ReqFillColor } }

\* C29: for every request accepted as a rectangle or rounded rectangle,
\* each row from yAxis to yAxis + breadth - 1 receives a fill run,
\* whatever the breadth.
C29_NoScanlineGap ==
  ( /\ IsDrawShape /\ ReqFlags.isDrawRect
    /\ ReqBoxOnScreen )
  => \A row \in ReqY .. ReqY + ReqBreadth - 1 : row \in FillRows

\* Turns of an arc loop of drawShape for the radius r: each turn plots two
\* runs.
ArcTurns(r) == Len(ArcLoop("Top", 0, 0, r, 0, 0, 0, 0)) \div 2

\* Radius drawShape works with after its validation.
ReqEffectiveRadius == IF ReqFlags.isDrawCircle THEN ReqRadius ELSE 0

ReqFillTurns ==
  IF ReqEffectiveRadius > 0 THEN ArcTurns(ReqEffectiveRadius) ELSE 0

ReqStrokeTurns ==
  IF ReqEffectiveRadius > 0 /\ ReqStroke > 0
  THEN ArcTurns(U16(ReqEffectiveRadius + ReqStroke))
  ELSE 0

\* C30: every drawShape call returns; each fill arc loop takes at most
\* radius + 1 turns, each stroke arc loop at most radius + strokeWidth + 1,
\* and the runs of the call are those of the four loops and at most five
\* of the mid section.
C30_ArcLoopsBounded ==
  IsDrawShape =>
    /\ ReqFillTurns <= ReqEffectiveRadius + 1
    /\ ReqStrokeTurns <= ReqEffectiveRadius + ReqStroke + 1
    /\ Len(runs) >= 4 * ReqFillTurns + 4 * ReqStrokeTurns
    /\ Len(runs) <= 4 * ReqFillTurns + 4 * ReqStrokeTurns + 5

\* A stroked rounded rectangle of the largest radius: all four loops run
\* for more than two turns and stop before the radius is reached.
C30_Witness ==
  /\ IsDrawShape /\ ReqFlags.isDrawCircle
  /\ ReqRadius = MaxRadius /\ ReqStroke = MaxStroke
  /\ ReqFillTurns > 2 /\ ReqFillTurns < MaxRadius
  /\ ReqStrokeTurns > 2
  /\ Len(runs) = 4 * ReqFillTurns + 4 * ReqStrokeTurns + 3

\* A stroke radius of 257, whose square does not fit 16 bits: the stroke
\* loops still stop.
C30_WrappedSquare ==
  /\ IsDrawShape /\ ReqFlags.isDrawCircle
  /\ ReqRadius + ReqStroke = 257
  /\ ReqStrokeTurns > 2

====
